---- MODULE Spec2Model ----
(***************************************************************************)
(* A model of the golem-cli entry point (src/src/main.rs): argument        *)
(* parsing, logging setup, transport construction, handler graph           *)
(* construction, dispatch, rendering and the process exit code.            *)
(*                                                                         *)
(* One run of the program is one behaviour.  The command line (argv), the  *)
(* environment (env) and the outcome of transport/handler calls are the    *)
(* inputs; every statement group of main / async_main is one action.       *)
(***************************************************************************)
EXTENDS Integers, Sequences, FiniteSets, TLC

\* ------------------------------------------------------------------ bounds
\* Largest number of -v flags on the command line.
MaxVerbose == 2
\* Largest number of -q flags on the command line.
MaxQuiet == 1
\* Largest number of elements of a JSON array in a handler result.
MaxElems == 1
\* Largest number of control-plane requests one handler call issues.
MaxRequests == 1

\* Level::Error as a number: the default level of Verbosity (ErrorLevel);
\* Off is 0, Trace is 5.
ErrorLevelValue == 1
TraceLevelValue == 5

\* ------------------------------------------------------------------ values
\* Option<T>: None is the empty sequence, Some(x) the one-element sequence.
None == <<>>
Some(x) == <<x>>
IsSome(o) == Len(o) = 1
Unwrap(o) == o[1]

\* Strings that are parsed character by character are sequences of characters.
DefaultUrlStr ==
    <<"h","t","t","p",":","/","/","l","o","c","a","l","h","o","s","t",":","9","8","8","1">>
HttpsUrlStr == <<"h","t","t","p","s",":","/","/","g",".","i","o">>
FtpUrlStr == <<"f","t","p",":","/","/","h","o","s","t">>
FileUrlStr == <<"f","i","l","e",":","/","/","/","x">>
NotAUrlStr == <<"n","o","t"," ","a"," ","u","r","l">>
NoHostUrlStr == <<"h","t","t","p",":","/","/">>

\* The values tried for --golem-url and for GOLEM_BASE_URL.
UrlStrings == {HttpsUrlStr, FtpUrlStr, FileUrlStr, NotAUrlStr, NoHostUrlStr}

\* The values tried for GOLEM_ALLOW_INSECURE.
InsecureStrings == {"false", "true", "0", "no", ""}

Commands == {"template", "worker", "new", "list-examples"}
\* What stands on the command line where the subcommand is expected.
ArgCommands == Commands \cup {"bogus"}
\* What stands after --format (None: the option is not given).
ArgFormats == {None, Some("yaml"), Some("json"), Some("text")}

\* enum Format of golem_cli::model; the match on it in async_main is
\* exhaustive with exactly these two arms.
Format == {"Json", "Yaml"}

\* ------------------------------------------------------- command line parse
\* The value parser of the --format option: the text after --format, or the
\* default_value "yaml" when the option is not given, becomes a Format; a
\* text that names no variant of Format is a parse error.
ParseFormat(arg) ==
    LET text == IF IsSome(arg) THEN Unwrap(arg) ELSE "yaml"
    IN  CASE text = "json" -> Some("Json")
          [] text = "yaml" -> Some("Yaml")
          [] OTHER -> None

\* GolemCommand::parse(): None when clap rejects the command line (it then
\* prints the diagnostic and exits the process with code 2).
ParseArgs(args) ==
    IF args.command \notin Commands \/ ~IsSome(ParseFormat(args.format))
    THEN None
    ELSE Some([verbose |-> args.verbose,
               quiet |-> args.quiet,
               format |-> Unwrap(ParseFormat(args.format)),
               golem_url |-> args.golem_url,
               command |-> args.command])

\* Verbosity::log_level(): the default level Error raised by each -v and
\* lowered by each -q, None (Off) below Error, saturating at Trace.
LogLevel(verbose, quiet) ==
    LET v == ErrorLevelValue + verbose - quiet
    IN  IF v <= 0 THEN None
        ELSE IF v >= TraceLevelValue THEN Some(TraceLevelValue)
        ELSE Some(v)

\* ------------------------------------------------------------- transport
\* Mutant of ResolveUrl: the environment variable wins over the flag.
ResolveUrlEnvFirst(golem_url, envBaseUrl) ==
    IF IsSome(envBaseUrl) THEN Unwrap(envBaseUrl)
    ELSE IF IsSome(golem_url) THEN Unwrap(golem_url)
    ELSE DefaultUrlStr

\* golem_url.or_else(|| env::var("GOLEM_BASE_URL").ok()).unwrap_or(default)
ResolveUrl(golem_url, envBaseUrl) ==
    IF IsSome(golem_url) THEN Unwrap(golem_url)
    ELSE IF IsSome(envBaseUrl) THEN Unwrap(envBaseUrl)
    ELSE DefaultUrlStr

Alpha ==
    {"a","b","c","d","e","f","g","h","i","j","k","l","m",
     "n","o","p","q","r","s","t","u","v","w","x","y","z"}
Digits == {"0","1","2","3","4","5","6","7","8","9"}
SchemeChars == Alpha \cup Digits \cup {"+", "-", "."}

HttpScheme == <<"h","t","t","p">>
HttpsScheme == <<"h","t","t","p","s">>
FileScheme == <<"f","i","l","e">>
\* The schemes whose URLs have an authority ("special" schemes).
SpecialSchemes ==
    {HttpScheme, HttpsScheme, FileScheme, <<"f","t","p">>, <<"w","s">>, <<"w","s","s">>}

\* The first position of character c in s, 0 when there is none.
IndexOf(s, c) ==
    IF \E i \in 1..Len(s) : s[i] = c
    THEN CHOOSE i \in 1..Len(s) : s[i] = c /\ \A j \in 1..(i-1) : s[j] # c
    ELSE 0

\* s without its first n characters.
Drop(s, n) == SubSeq(s, n + 1, Len(s))

\* The number of leading "/" of s, at most limit.
LeadingSlashes(s, limit) ==
    LET ns == {n \in 0..limit : n <= Len(s) /\ \A k \in 1..n : s[k] = "/"}
    IN  CHOOSE n \in ns : \A m \in ns : m <= n

UrlErr(e) ==
    [ok |-> FALSE, scheme |-> <<>>, host |-> <<>>, port |-> <<>>, path |-> <<>>, err |-> e]
UrlOk(scheme, host, port, path) ==
    [ok |-> TRUE, scheme |-> scheme, host |-> host, port |-> port, path |-> path, err |-> ""]

\* Url::parse: an absolute URL needs a scheme (a letter, then letters, digits,
\* "+", "-", "."), ended by ":"; a special scheme other than file needs a
\* non-empty host, and a port is decimal digits.  Any scheme is accepted.
UrlParse(s) ==
    LET i == IndexOf(s, ":")
    IN  IF i <= 1 \/ s[1] \notin Alpha \/ \E k \in 1..(i-1) : s[k] \notin SchemeChars
        THEN UrlErr("RelativeUrlWithoutBase")
        ELSE
          LET scheme == SubSeq(s, 1, i - 1)
              rest == Drop(s, i)
          IN  IF scheme \notin SpecialSchemes
              THEN UrlOk(scheme, <<>>, <<>>, rest)
              ELSE
                LET limit == IF scheme = FileScheme THEN 2 ELSE Len(rest)
                    auth == Drop(rest, LeadingSlashes(rest, limit))
                    slash == IndexOf(auth, "/")
                    hostport == IF slash = 0 THEN auth ELSE SubSeq(auth, 1, slash - 1)
                    path == IF slash = 0 THEN <<"/">> ELSE Drop(auth, slash - 1)
                    colon == IndexOf(hostport, ":")
                    host == IF colon = 0 THEN hostport ELSE SubSeq(hostport, 1, colon - 1)
                    port == IF colon = 0 THEN <<>> ELSE Drop(hostport, colon)
                IN  IF scheme # FileScheme /\ host = <<>>
                    THEN UrlErr("EmptyHost")
                    ELSE IF \E k \in 1..Len(port) : port[k] \notin Digits
                    THEN UrlErr("InvalidPort")
                    ELSE UrlOk(scheme, host, port, path)

\* Mutant of AllowInsecure: only a truthy value enables it.
AllowInsecureTruthy(envAllowInsecure) ==
    IsSome(envAllowInsecure) /\ Unwrap(envAllowInsecure) \notin {"false", "0", "no", ""}

\* allow_insecure_str = env::var("GOLEM_ALLOW_INSECURE").unwrap_or("false");
\* allow_insecure = allow_insecure_str != "false"
AllowInsecure(envAllowInsecure) ==
    LET allow_insecure_str ==
          IF IsSome(envAllowInsecure) THEN Unwrap(envAllowInsecure) ELSE "false"
    IN  allow_insecure_str # "false"

\* reqwest::Client::builder(), danger_accept_invalid_certs(true) only when
\* allow_insecure, then connection_verbose(true).
BuildClient(allow_insecure) ==
    [accept_invalid_certs |-> allow_insecure, connection_verbose |-> TRUE]


\* ---------------------------------------------------------------- results
\* serde_json::Value, restricted to null, booleans, numbers, strings, arrays
\* of numbers and one-entry objects.  n holds the number (or the boolean as
\* 0/1, or an object's value), s the string (or an object's key).
JNull == [kind |-> "null", n |-> 0, s |-> "", items |-> <<>>]
JBool(b) == [kind |-> "bool", n |-> IF b THEN 1 ELSE 0, s |-> "", items |-> <<>>]
JNum(n) == [kind |-> "num", n |-> n, s |-> "", items |-> <<>>]
JStr(s) == [kind |-> "str", n |-> 0, s |-> s, items |-> <<>>]
JArr(a) == [kind |-> "arr", n |-> 0, s |-> "", items |-> a]
JObj(k, n) == [kind |-> "obj", n |-> n, s |-> k, items |-> <<>>]

JsonValues ==
    {JNull, JBool(TRUE), JNum(7), JStr("a"), JObj("k", 7)}
      \cup {JArr(a) : a \in UNION {[1..k -> {1, 2}] : k \in 0..MaxElems}}

\* The elements of a pretty-printed array: one per line, indented by two
\* spaces, separated by commas.
RECURSIVE PrettyItems(_)
PrettyItems(a) ==
    IF Len(a) = 0 THEN ""
    ELSE "  " \o ToString(Head(a))
           \o (IF Len(a) = 1 THEN "\n" ELSE ",\n" \o PrettyItems(Tail(a)))

\* serde_json::to_string_pretty
ToStringPretty(v) ==
    CASE v.kind = "null" -> "null"
      [] v.kind = "bool" -> (IF v.n = 1 THEN "true" ELSE "false")
      [] v.kind = "num" -> ToString(v.n)
      [] v.kind = "str" -> "\"" \o v.s \o "\""
      [] v.kind = "arr" ->
           (IF Len(v.items) = 0 THEN "[]" ELSE "[\n" \o PrettyItems(v.items) \o "]")
      [] v.kind = "obj" -> "{\n  \"" \o v.s \o "\": " \o ToString(v.n) \o "\n}"

\* The elements of a YAML block sequence: "- " and the element, one per line.
RECURSIVE YamlItems(_)
YamlItems(a) ==
    IF Len(a) = 0 THEN ""
    ELSE "- " \o ToString(Head(a)) \o "\n" \o YamlItems(Tail(a))

\* serde_yaml::to_string: the document ends with a newline.
ToYaml(v) ==
    CASE v.kind = "null" -> "null\n"
      [] v.kind = "bool" -> (IF v.n = 1 THEN "true\n" ELSE "false\n")
      [] v.kind = "num" -> ToString(v.n) \o "\n"
      [] v.kind = "str" -> v.s \o "\n"
      [] v.kind = "arr" -> (IF Len(v.items) = 0 THEN "[]\n" ELSE YamlItems(v.items))
      [] v.kind = "obj" -> v.s \o ": " \o ToString(v.n) \o "\n"

\* println!("{}", text)
Println(text) == text \o "\n"

\* Result<GolemResult, GolemError> as the handlers return it.
ResOk(r) == [tag |-> "Ok", str |-> "", json |-> r, err |-> ""]
ResStr(s) == [tag |-> "Str", str |-> s, json |-> JNull, err |-> ""]
ResJson(j) == [tag |-> "Json", str |-> "", json |-> j, err |-> ""]
ResErr(e) == [tag |-> "Err", str |-> "", json |-> JNull, err |-> e]

StrMessages == {"done", ""}
GolemErrors == {"NotFound", "ApiError"}

\* What a dispatched handler may return.
HandlerOutcomes ==
    {ResOk(r) : r \in JsonValues} \cup {ResStr(m) : m \in StrMessages}
      \cup {ResJson(j) : j \in JsonValues} \cup {ResErr(e) : e \in GolemErrors}

\* r.println(&format) of a renderable domain object: its structured form in
\* the given format.
PrintlnRenderable(r, format) ==
    IF format = "Json" THEN Println(ToStringPretty(r)) ELSE Println(ToYaml(r))

\* Mutant of RenderStrText: the string is serialised per format.
RenderStrTextFormatted(s, format) ==
    IF format = "Json" THEN Println(ToStringPretty(JStr(s))) ELSE Println(s)

\* The arm GolemResult::Str(s) => println!("{s}")
RenderStrText(s, format) == Println(s)

\* Mutant of RenderJsonText: the format is ignored.
RenderJsonTextAlwaysYaml(json, format) == Println(ToYaml(json))

\* The arm GolemResult::Json(json) => match &cmd.format { Json => pretty
\* JSON, Yaml => YAML }
RenderJsonText(json, format) ==
    CASE format = "Json" -> Println(ToStringPretty(json))
      [] format = "Yaml" -> Println(ToYaml(json))

\* Process exit codes: main returning Ok(()), main returning Err, clap
\* rejecting the command line, and a panic of the main thread.
ExitSuccess == 0
ExitFailure == 1
ExitUsage == 2
ExitPanic == 101


\* ------------------------------------------------------------------ state
VARIABLES
    argv,               \* the command line: command, format, golem_url, verbose, quiet
    env,                \* the environment: GOLEM_BASE_URL, GOLEM_ALLOW_INSECURE
    pc,                 \* the statement main / async_main is at
    cmd,                \* command: Option<GolemCommand>
    subscriber,         \* the global tracing subscriber's max level, None: not set
    url_str,            \* Option of the resolved base URL string
    url,                \* Option of the parsed Url
    allow_insecure,     \* Option<bool>
    client,             \* Option of the reqwest client
    context,            \* Option<Context>
    template_srv,       \* Option<TemplateHandlerLive>
    worker_srv,         \* Option<WorkerHandlerLive>
    res,                \* Option of the dispatched handler's result
    ret,                \* Option of the error async_main returns to main
    stdout,             \* the text written to standard output
    stderr,             \* the messages written to standard error
    exitCode,           \* Option of the process exit code
    calls,              \* the handler entry points called, in order
    requests,           \* the number of control-plane requests issued
    scaffolded,         \* whether process_new wrote a project directory
    installs,           \* the number of set_global_default calls
    trace               \* the steps taken, in order

vars ==
    <<argv, env, pc, cmd, subscriber, url_str, url, allow_insecure, client, context,
      template_srv, worker_srv, res, ret, stdout, stderr, exitCode, calls, requests,
      scaffolded, installs, trace>>

\* The variables of the transport and handler graph.
graph == <<url_str, url, allow_insecure, client, context, template_srv, worker_srv>>
\* The variables of the process's output.
output == <<stdout, stderr, exitCode>>
\* The variables handlers act on.
effects == <<calls, requests, scaffolded>>

Init ==
    /\ argv \in [command : ArgCommands,
                 format : ArgFormats,
                 golem_url : {None} \cup {Some(u) : u \in UrlStrings},
                 verbose : 0..MaxVerbose,
                 quiet : 0..MaxQuiet]
    /\ env \in [GOLEM_BASE_URL : {None} \cup {Some(u) : u \in UrlStrings},
                GOLEM_ALLOW_INSECURE : {None} \cup {Some(v) : v \in InsecureStrings}]
    /\ pc = "parse"
    /\ cmd = None
    /\ subscriber = None
    /\ url_str = None
    /\ url = None
    /\ allow_insecure = None
    /\ client = None
    /\ context = None
    /\ template_srv = None
    /\ worker_srv = None
    /\ res = None
    /\ ret = None
    /\ stdout = ""
    /\ stderr = <<>>
    /\ exitCode = None
    /\ calls = <<>>
    /\ requests = 0
    /\ scaffolded = FALSE
    /\ installs = 0
    /\ trace = <<>>

\* ------------------------------------------------------------------- main
\* let command = GolemCommand::parse(); the command line is accepted.
ParseAccept ==
    /\ pc = "parse"
    /\ IsSome(ParseArgs(argv))
    /\ cmd' = ParseArgs(argv)
    /\ pc' = "logging"
    /\ trace' = Append(trace, "parse")
    /\ UNCHANGED <<argv, env, subscriber, graph, res, ret, output, effects, installs>>

\* GolemCommand::parse() rejects the command line: diagnostic on stderr,
\* exit code 2, nothing else runs.
ParseReject ==
    /\ pc = "parse"
    /\ ~IsSome(ParseArgs(argv))
    /\ stderr' = Append(stderr, "error: invalid command line")
    /\ exitCode' = Some(ExitUsage)
    /\ pc' = "exited"
    /\ trace' = Append(trace, "parse")
    /\ UNCHANGED <<argv, env, cmd, subscriber, graph, res, ret, stdout, effects, installs>>

\* if let Some(level) = command.verbosity.log_level() { ...
\*     set_global_default(subscriber) }
InitLogging ==
    /\ pc = "logging"
    /\ IsSome(LogLevel(Unwrap(cmd).verbose, Unwrap(cmd).quiet))
    /\ subscriber' = LogLevel(Unwrap(cmd).verbose, Unwrap(cmd).quiet)
    /\ installs' = installs + 1
    /\ pc' = "runtime"
    /\ trace' = Append(trace, "logging")
    /\ UNCHANGED <<argv, env, cmd, graph, res, ret, output, effects>>

\* log_level() is None: no subscriber is installed.
SkipLogging ==
    /\ pc = "logging"
    /\ ~IsSome(LogLevel(Unwrap(cmd).verbose, Unwrap(cmd).quiet))
    /\ pc' = "runtime"
    /\ UNCHANGED <<argv, env, cmd, subscriber, graph, res, ret, output, effects,
                   installs, trace>>

\* Mutant of EnterAsyncMain: the local commands skip transport construction.
EnterAsyncMainLocalFirst ==
    /\ pc = "runtime"
    /\ pc' = IF Unwrap(cmd).command \in {"new", "list-examples"}
             THEN "dispatch" ELSE "resolve_url"
    /\ UNCHANGED <<argv, env, cmd, subscriber, graph, res, ret, output, effects,
                   installs, trace>>

\* tokio::runtime::Builder ... .block_on(async_main(command))
EnterAsyncMain ==
    /\ pc = "runtime"
    /\ pc' = "resolve_url"
    /\ UNCHANGED <<argv, env, cmd, subscriber, graph, res, ret, output, effects,
                   installs, trace>>


\* ------------------------------------------------------------- async_main
\* let url_str = cmd.golem_url.or_else(...).unwrap_or(...)
ResolveBaseUrl ==
    /\ pc = "resolve_url"
    /\ url_str' = Some(ResolveUrl(Unwrap(cmd).golem_url, env.GOLEM_BASE_URL))
    /\ pc' = "parse_url"
    /\ trace' = Append(trace, "resolve_url")
    /\ UNCHANGED <<argv, env, cmd, subscriber, url, allow_insecure, client, context,
                   template_srv, worker_srv, res, ret, output, effects, installs>>

\* let url = Url::parse(&url_str).unwrap(); the string parses.
ParseUrlOk ==
    /\ pc = "parse_url"
    /\ UrlParse(Unwrap(url_str)).ok
    /\ url' = Some(UrlParse(Unwrap(url_str)))
    /\ pc' = "allow_insecure"
    /\ trace' = Append(trace, "parse_url")
    /\ UNCHANGED <<argv, env, cmd, subscriber, url_str, allow_insecure, client, context,
                   template_srv, worker_srv, res, ret, output, effects, installs>>

\* Url::parse(&url_str).unwrap() on an Err: the thread panics; the panic
\* message goes to stderr and the process exits with the panic exit code.
ParseUrlPanic ==
    /\ pc = "parse_url"
    /\ ~UrlParse(Unwrap(url_str)).ok
    /\ stderr' = Append(stderr, "panicked: called Result::unwrap() on an Err value: "
                                  \o UrlParse(Unwrap(url_str)).err)
    /\ exitCode' = Some(ExitPanic)
    /\ pc' = "exited"
    /\ trace' = Append(trace, "parse_url")
    /\ UNCHANGED <<argv, env, cmd, subscriber, graph, res, ret, stdout, effects, installs>>

\* let allow_insecure_str = ...; let allow_insecure = allow_insecure_str != "false";
ReadAllowInsecure ==
    /\ pc = "allow_insecure"
    /\ allow_insecure' = Some(AllowInsecure(env.GOLEM_ALLOW_INSECURE))
    /\ pc' = "build_client"
    /\ trace' = Append(trace, "allow_insecure")
    /\ UNCHANGED <<argv, env, cmd, subscriber, url_str, url, client, context,
                   template_srv, worker_srv, res, ret, output, effects, installs>>

\* let client = builder.connection_verbose(true).build()?; the build succeeds.
BuildClientOk ==
    /\ pc = "build_client"
    /\ client' = Some(BuildClient(Unwrap(allow_insecure)))
    /\ pc' = "context"
    /\ trace' = Append(trace, "build_client")
    /\ UNCHANGED <<argv, env, cmd, subscriber, url_str, url, allow_insecure, context,
                   template_srv, worker_srv, res, ret, output, effects, installs>>

\* builder.build()? fails: async_main returns the error to main.
BuildClientErr ==
    /\ pc = "build_client"
    /\ ret' = Some("reqwest::Error")
    /\ pc' = "return_err"
    /\ trace' = Append(trace, "build_client")
    /\ UNCHANGED <<argv, env, cmd, subscriber, graph, res, output, effects, installs>>

\* let context = Context { base_url: url.clone(), client: client.clone() };
BuildContext ==
    /\ pc = "context"
    /\ context' = Some([base_url |-> Unwrap(url), client |-> Unwrap(client)])
    /\ pc' = "handlers"
    /\ trace' = Append(trace, "context")
    /\ UNCHANGED <<argv, env, cmd, subscriber, url_str, url, allow_insecure, client,
                   template_srv, worker_srv, res, ret, output, effects, installs>>

\* let template_client = ...; let template_srv = ...;
\* let worker_client = ...; let worker_srv = ...;
BuildHandlers ==
    /\ pc = "handlers"
    /\ template_srv' = Some([client |-> [client |-> [context |-> Unwrap(context)]]])
    /\ worker_srv' =
         Some([client |-> [client |-> [context |-> Unwrap(context)],
                           context |-> Unwrap(context),
                           allow_insecure |-> Unwrap(allow_insecure)],
               templates |-> "template_srv"])
    /\ pc' = "dispatch"
    /\ trace' = Append(trace, "handlers")
    /\ UNCHANGED <<argv, env, cmd, subscriber, url_str, url, allow_insecure, client,
                   context, res, ret, output, effects, installs>>

\* TemplateHandler::handle / WorkerHandler::handle: the handler named `entry`
\* runs, issues some control-plane requests and returns `out`.
NetworkHandle(entry, out, n) ==
    /\ res' = Some(out)
    /\ calls' = Append(calls, entry)
    /\ requests' = requests + n
    /\ UNCHANGED scaffolded

\* examples::process_new: no request; on success the project directory is
\* written.
ProcessNew(out) ==
    /\ res' = Some(out)
    /\ calls' = Append(calls, "examples::process_new")
    /\ scaffolded' = (out.tag # "Err")
    /\ UNCHANGED requests

\* examples::process_list_examples: no request, nothing written.
ProcessListExamples(out) ==
    /\ res' = Some(out)
    /\ calls' = Append(calls, "examples::process_list_examples")
    /\ UNCHANGED <<requests, scaffolded>>

\* What Dispatch leaves alone.
DispatchFrame ==
    /\ pc' = "render"
    /\ trace' = Append(trace, "dispatch")
    /\ UNCHANGED <<argv, env, cmd, subscriber, graph, ret, output, installs>>

\* Command::Template { subcommand } => template_srv.handle(subcommand).await
DispatchTemplate ==
    /\ pc = "dispatch"
    /\ Unwrap(cmd).command = "template"
    /\ \E out \in HandlerOutcomes, n \in 0..MaxRequests :
         NetworkHandle("TemplateHandler.handle", out, n)
    /\ DispatchFrame

\* Command::Worker { subcommand } => worker_srv.handle(subcommand).await
DispatchWorker ==
    /\ pc = "dispatch"
    /\ Unwrap(cmd).command = "worker"
    /\ \E out \in HandlerOutcomes, n \in 0..MaxRequests :
         NetworkHandle("WorkerHandler.handle", out, n)
    /\ DispatchFrame

\* Mutant of DispatchNew: new is routed through the template handler.
DispatchNewViaTemplate ==
    /\ pc = "dispatch"
    /\ Unwrap(cmd).command = "new"
    /\ \E out \in HandlerOutcomes, n \in 0..MaxRequests :
         NetworkHandle("TemplateHandler.handle", out, n)
    /\ DispatchFrame

\* Command::New { .. } => examples::process_new(example, template_name, package_name)
DispatchNew ==
    /\ pc = "dispatch"
    /\ Unwrap(cmd).command = "new"
    /\ \E out \in HandlerOutcomes : ProcessNew(out)
    /\ DispatchFrame

\* Command::ListExamples { .. } => examples::process_list_examples(min_tier, language)
DispatchListExamples ==
    /\ pc = "dispatch"
    /\ Unwrap(cmd).command = "list-examples"
    /\ \E out \in HandlerOutcomes : ProcessListExamples(out)
    /\ DispatchFrame

\* What the Ok arms of `match res` leave alone.
RenderFrame ==
    /\ pc' = "return_ok"
    /\ trace' = Append(trace, "render")
    /\ UNCHANGED <<argv, env, cmd, subscriber, graph, res, ret, stderr, exitCode,
                   effects, installs>>

\* GolemResult::Ok(r) => { r.println(&cmd.format); Ok(()) }
RenderOk ==
    /\ pc = "render"
    /\ Unwrap(res).tag = "Ok"
    /\ stdout' = stdout \o PrintlnRenderable(Unwrap(res).json, Unwrap(cmd).format)
    /\ RenderFrame

\* GolemResult::Str(s) => { println!("{s}"); Ok(()) }
RenderStr ==
    /\ pc = "render"
    /\ Unwrap(res).tag = "Str"
    /\ stdout' = stdout \o RenderStrText(Unwrap(res).str, Unwrap(cmd).format)
    /\ RenderFrame

\* GolemResult::Json(json) => match &cmd.format { ... }
RenderJson ==
    /\ pc = "render"
    /\ Unwrap(res).tag = "Json"
    /\ stdout' = stdout \o RenderJsonText(Unwrap(res).json, Unwrap(cmd).format)
    /\ RenderFrame

\* Mutant of ReturnErr: the error is also printed to stdout.
ReturnErrPrinted ==
    /\ pc = "render"
    /\ Unwrap(res).tag = "Err"
    /\ stdout' = stdout \o Println(Unwrap(res).err)
    /\ ret' = Some(Unwrap(res).err)
    /\ pc' = "return_err"
    /\ UNCHANGED <<argv, env, cmd, subscriber, graph, res, stderr, exitCode, effects,
                   installs, trace>>

\* Err(err) => Err(Box::new(err)): the handler's error is returned to main.
ReturnErr ==
    /\ pc = "render"
    /\ Unwrap(res).tag = "Err"
    /\ ret' = Some(Unwrap(res).err)
    /\ pc' = "return_err"
    /\ UNCHANGED <<argv, env, cmd, subscriber, graph, res, output, effects, installs,
                   trace>>

\* main returns Ok(()): the process exits with the success code.
MainReturnOk ==
    /\ pc = "return_ok"
    /\ exitCode' = Some(ExitSuccess)
    /\ pc' = "exited"
    /\ trace' = Append(trace, "exit")
    /\ UNCHANGED <<argv, env, cmd, subscriber, graph, res, ret, stdout, stderr,
                   effects, installs>>

\* Mutant of MainReturnErr: the error is reported but the exit code is success.
MainReturnErrExitsZero ==
    /\ pc = "return_err"
    /\ stderr' = Append(stderr, "Error: " \o Unwrap(ret))
    /\ exitCode' = Some(ExitSuccess)
    /\ pc' = "exited"
    /\ trace' = Append(trace, "exit")
    /\ UNCHANGED <<argv, env, cmd, subscriber, graph, res, ret, stdout, effects, installs>>

\* main returns Err(e): the runtime prints "Error: {e:?}" to stderr and the
\* process exits with the failure code.
MainReturnErr ==
    /\ pc = "return_err"
    /\ stderr' = Append(stderr, "Error: " \o Unwrap(ret))
    /\ exitCode' = Some(ExitFailure)
    /\ pc' = "exited"
    /\ trace' = Append(trace, "exit")
    /\ UNCHANGED <<argv, env, cmd, subscriber, graph, res, ret, stdout, effects, installs>>

Next ==
    \/ ParseAccept
    \/ ParseReject
    \/ InitLogging
    \/ SkipLogging
    \/ EnterAsyncMain
    \/ ResolveBaseUrl
    \/ ParseUrlOk
    \/ ParseUrlPanic
    \/ ReadAllowInsecure
    \/ BuildClientOk
    \/ BuildClientErr
    \/ BuildContext
    \/ BuildHandlers
    \/ DispatchTemplate
    \/ DispatchWorker
    \/ DispatchNew
    \/ DispatchListExamples
    \/ RenderOk
    \/ RenderStr
    \/ RenderJson
    \/ ReturnErr
    \/ MainReturnOk
    \/ MainReturnErr

Spec == Init /\ [][Next]_vars


\* ================================================================= claims
\* The run has rendered a successful handler result.
Rendered == pc \in {"return_ok", "exited"} /\ IsSome(res) /\ Unwrap(res).tag # "Err"

\* The position of a step in the pipeline parse, logging, transport build,
\* handler graph build, dispatch, render, exit.
StageOf(step) ==
    CASE step = "parse" -> 1
      [] step = "logging" -> 2
      [] step \in {"resolve_url", "parse_url", "allow_insecure", "build_client", "context"} -> 3
      [] step = "handlers" -> 4
      [] step = "dispatch" -> 5
      [] step = "render" -> 6
      [] step = "exit" -> 7

\* C1: the base URL string is the --golem-url value when the flag is given,
\* else the GOLEM_BASE_URL value when the variable is set, else
\* http://localhost:9881; the Context is built from exactly that string.
C1_BaseUrlPrecedence ==
    LET flag == argv.golem_url
        var == env.GOLEM_BASE_URL
    IN  /\ IsSome(url_str) =>
             /\ IsSome(flag) => Unwrap(url_str) = Unwrap(flag)
             /\ (~IsSome(flag) /\ IsSome(var)) => Unwrap(url_str) = Unwrap(var)
             /\ (~IsSome(flag) /\ ~IsSome(var)) =>
                  Unwrap(url_str) =
                    <<"h","t","t","p",":","/","/","l","o","c","a","l","h","o","s","t",
                      ":","9","8","8","1">>
        /\ IsSome(context) =>
             /\ Unwrap(context).base_url = UrlParse(Unwrap(url_str))
             /\ (~IsSome(flag) /\ ~IsSome(var)) =>
                  /\ Unwrap(context).base_url.scheme = <<"h","t","t","p">>
                  /\ Unwrap(context).base_url.host = <<"l","o","c","a","l","h","o","s","t">>
                  /\ Unwrap(context).base_url.port = <<"9","8","8","1">>

\* C1 witness: a Context built from the flag while the variable holds another URL.
C1_Witness ==
    /\ IsSome(context)
    /\ IsSome(argv.golem_url)
    /\ IsSome(env.GOLEM_BASE_URL)
    /\ argv.golem_url # env.GOLEM_BASE_URL
    /\ Unwrap(url_str) = Unwrap(argv.golem_url)

\* C2: the HTTP client accepts invalid certificates exactly when
\* GOLEM_ALLOW_INSECURE is present and is not literally "false", and the worker
\* client's allow_insecure has the same value.
C2_TlsVerification ==
    LET var == env.GOLEM_ALLOW_INSECURE
        disabled == IsSome(var) /\ Unwrap(var) # "false"
    IN  /\ IsSome(client) => (Unwrap(client).accept_invalid_certs <=> disabled)
        /\ IsSome(worker_srv) =>
             /\ Unwrap(worker_srv).client.allow_insecure <=> disabled
             /\ Unwrap(worker_srv).client.allow_insecure
                  = Unwrap(worker_srv).client.context.client.accept_invalid_certs

\* C2 witness: GOLEM_ALLOW_INSECURE=0 disables verification in both places.
C2_Witness ==
    /\ env.GOLEM_ALLOW_INSECURE = Some("0")
    /\ IsSome(worker_srv)
    /\ Unwrap(worker_srv).client.allow_insecure
    /\ Unwrap(client).accept_invalid_certs

\* C3: the exit code is 2 when argument parsing fails, 0 when the handler
\* returned a successful result and it was rendered, 1 when the handler
\* returned an error; a handler error never exits 0, a handler success never
\* exits non-zero.
C3_ExitCode ==
    /\ pc # "exited" => exitCode = None
    /\ pc = "exited" =>
         /\ IsSome(exitCode)
         /\ ~IsSome(ParseArgs(argv)) => exitCode = Some(2)
         /\ (IsSome(res) /\ Unwrap(res).tag # "Err") =>
              (exitCode = Some(0) /\ "render" \in {trace[i] : i \in 1..Len(trace)})
         /\ (IsSome(res) /\ Unwrap(res).tag = "Err") => exitCode = Some(1)
         /\ exitCode = Some(0) => (IsSome(res) /\ Unwrap(res).tag # "Err")

\* C3 witness: a run whose handler returned an error has exited with code 1.
C3_Witness ==
    /\ pc = "exited"
    /\ IsSome(res)
    /\ Unwrap(res).tag = "Err"
    /\ exitCode = Some(1)

\* C4: when the resolved base URL string does not parse, the run ends as an
\* error value handed to main's error sink: exit code 1, no handler
\* dispatched, nothing on stdout.
C4_InvalidConfigError ==
    (pc = "exited" /\ IsSome(url_str) /\ ~UrlParse(Unwrap(url_str)).ok) =>
        /\ IsSome(ret)
        /\ exitCode = Some(1)
        /\ calls = <<>>
        /\ stdout = ""

\* C5: whenever a Context exists its base_url has scheme http or https.
C5_HttpScheme ==
    IsSome(context) =>
        Unwrap(context).base_url.scheme \in {<<"h","t","t","p">>, <<"h","t","t","p","s">>}

C7_StrRendering ==
    (IsSome(res) /\ Unwrap(res).tag = "Str") =>
        /\ Rendered => stdout = Unwrap(res).str \o "\n"
        /\ ~Rendered => stdout = ""
        /\ pc = "exited" => exitCode = Some(0)

\* C7 witness: Str("done") written under --format json.
C7_Witness ==
    /\ pc = "exited"
    /\ argv.format = Some("json")
    /\ res = Some(ResStr("done"))
    /\ stdout = "done\n"
    /\ exitCode = Some(0)

\* C8: the steps of a run are taken in pipeline order, none twice; the logging
\* subscriber is installed at most once and only when the verbosity is not
\* Off; a handler is dispatched only after the Context and both handlers
\* exist; rendering happens at most once, only after a successful handler
\* result; a handler error writes nothing to stdout and reaches main's error
\* sink unchanged.
C8_Pipeline ==
    /\ \A i, j \in 1..Len(trace) :
         i < j => (trace[i] # trace[j] /\ StageOf(trace[i]) <= StageOf(trace[j]))
    /\ installs <= 1
    /\ installs = 1 <=> ("logging" \in {trace[i] : i \in 1..Len(trace)})
    /\ installs = 1 => (IsSome(subscriber) /\ argv.quiet <= argv.verbose)
    /\ (calls # <<>> \/ IsSome(res)) =>
         (IsSome(context) /\ IsSome(template_srv) /\ IsSome(worker_srv))
    /\ ("render" \in {trace[i] : i \in 1..Len(trace)} \/ stdout # "") =>
         (IsSome(res) /\ Unwrap(res).tag # "Err")
    /\ (IsSome(res) /\ Unwrap(res).tag = "Err") =>
         /\ stdout = ""
         /\ IsSome(ret) => ret = Some(Unwrap(res).err)
         /\ pc \in {"return_err", "exited"} => ret = Some(Unwrap(res).err)
         /\ pc = "exited" => stderr = <<"Error: " \o Unwrap(res).err>>

\* C8 witness: a verbose run whose handler failed has gone through every step
\* but render.
C8_Witness ==
    /\ pc = "exited"
    /\ installs = 1
    /\ res = Some(ResErr("ApiError"))
    /\ trace = <<"parse", "logging", "resolve_url", "parse_url", "allow_insecure",
                 "build_client", "context", "handlers", "dispatch", "exit">>
    /\ stderr = <<"Error: ApiError">>

C10_TransportBeforeExamples ==
    argv.command \in {"new", "list-examples"} =>
        /\ (pc = "dispatch" \/ calls # <<>> \/ scaffolded) =>
             (IsSome(url) /\ IsSome(allow_insecure) /\ IsSome(client) /\ IsSome(context))
        /\ (pc = "exited" /\ (~IsSome(url) \/ ~IsSome(client))) =>
             (calls = <<>> /\ ~scaffolded /\ res = None /\ stdout = ""
                /\ exitCode # Some(0))

\* C10 witness: new with an unparseable --golem-url ended before process_new.
C10_Witness ==
    /\ pc = "exited"
    /\ argv.command = "new"
    /\ argv.golem_url = Some(NotAUrlStr)
    /\ url = None
    /\ calls = <<>>
    /\ ~scaffolded


====
